---------------------------- MODULE Spec2Model ----------------------------
(***************************************************************************)
(* A model of the dnsmasq-viewer backend: the lease file reader            *)
(* (backend/lease_parser.py get_lease_file), the lease line parser         *)
(* (backend/lease_parser.py parse_lease) and the listing built from them   *)
(* (backend/api/api.py leases).                                            *)
(*                                                                         *)
(* Python values are records with a "type" field.  A str is the sequence   *)
(* of its symbols: a symbol is a space, a newline, or one word that holds  *)
(* no whitespace (a symbol stands for the characters of that word).        *)
(* The outcome of a call is a record: it returns a value or raises an      *)
(* exception; "line" is the source line of the raise statement or of the   *)
(* statement the exception escapes from.                                   *)
(***************************************************************************)
EXTENDS Integers, Sequences, FiniteSets, TLC

VARIABLES
    lease_line,     \* parse_lease: the argument of the call
    parsed,         \* parse_lease: the outcome of the call
    fs,             \* the file system: path -> [status, lines]
    path,           \* get_lease_file: the argument of the call
    r_pc,           \* get_lease_file: position in the function
    files_to_try,   \* get_lease_file: the candidate list
    opened,         \* get_lease_file: the paths handed to open(), in order
    file_out,       \* get_lease_file: the outcome of the call
    l_pc,           \* leases: position in the handler
    lease_records,  \* leases: the list the comprehension has built so far
    l_out,          \* leases: the outcome of the handler
    calls,          \* the arguments of the get_lease_file calls of a process
    validator,      \* validate: self, [kind, allow_null, setting]
    v_value,        \* validate: the value argument
    allow_coerce,   \* validate: the allow_coerce argument
    v_out           \* validate: the outcome of the call

vars == <<lease_line, parsed, fs, path, r_pc, files_to_try, opened, file_out,
          l_pc, lease_records, l_out, calls, validator, v_value,
          allow_coerce,
          v_out>>

parser_vars == <<lease_line, parsed>>
reader_vars == <<fs, path, r_pc, files_to_try, opened, file_out>>
leases_vars == <<l_pc, lease_records, l_out>>
validator_vars == <<validator, v_value, allow_coerce, v_out>>

---------------------------------------------------------------------------
(* Bounds of the model.                                                    *)

\* The largest number of fields written on one generated lease line.
MaxFields == 6

\* The largest number of lines in the file at the explicit path.
MaxLines == 2

\* The largest number of get_lease_file calls one process makes.
MaxCalls == 2

---------------------------------------------------------------------------
(* Python values and outcomes.                                             *)

PyNone == [type |-> "NoneType"]

PyStr(s) == [type |-> "str", s |-> s]

PyInt(n) == [type |-> "int", v |-> n]

\* bool(value) for the types of value the model passes around.
Truthy(value) ==
    CASE value.type = "NoneType" -> FALSE
      [] value.type = "str" -> value.s # <<>>
      [] value.type = "int" -> value.v # 0
      [] OTHER -> TRUE

Pending == [kind |-> "pending"]

Return(v) == [kind |-> "return", value |-> v]

Raise(e, l) == [kind |-> "raise", exc |-> e, line |-> l]

\* The classes an exception is an instance of (its own and its bases).
\* IOError is an alias of OSError; UnicodeDecodeError derives from ValueError;
\* LeaseParseError derives from Exception alone.
Bases(e) ==
    CASE e = "LeaseParseError" -> {"LeaseParseError", "Exception"}
      [] e = "ValueError" -> {"ValueError", "Exception"}
      [] e = "UnicodeDecodeError" -> {"UnicodeDecodeError", "ValueError", "Exception"}
      [] e = "FileNotFoundError" -> {"FileNotFoundError", "OSError", "IOError", "Exception"}
      [] e = "PermissionError" -> {"PermissionError", "OSError", "IOError", "Exception"}
      [] e = "OSError" -> {"OSError", "IOError", "Exception"}
      [] e = "AddrFormatError" -> {"AddrFormatError", "Exception"}
      [] e = "AttributeError" -> {"AttributeError", "Exception"}
      [] e = "ParserError" -> {"ParserError", "Exception"}
      [] OTHER -> {e, "Exception"}

\* Whether an except clause naming the classes `handler` catches exception e.
Catches(handler, e) == Bases(e) \cap handler # {}

---------------------------------------------------------------------------
(* str.strip() and str.split(' ').                                         *)

Space == " "

Newline == "\n"

\* The characters str.strip() removes (of the symbols of the model).
Whitespace == {Space, Newline}

RECURSIVE lstrip(_)
lstrip(s) == IF s # <<>> /\ Head(s) \in Whitespace THEN lstrip(Tail(s)) ELSE s

RECURSIVE rstrip(_)
rstrip(s) ==
    IF s # <<>> /\ s[Len(s)] \in Whitespace
    THEN rstrip(SubSeq(s, 1, Len(s) - 1))
    ELSE s

strip(s) == rstrip(lstrip(s))

\* s.split(' '): cuts at every single space; k spaces in s give k + 1 tokens,
\* some of them empty when spaces are adjacent or at an end.
RECURSIVE split(_)
split(s) ==
    IF \A i \in 1..Len(s) : s[i] # Space
    THEN <<s>>
    ELSE LET i == CHOOSE k \in 1..Len(s) :
                      s[k] = Space /\ \A j \in 1..(k - 1) : s[j] # Space
         IN  <<SubSeq(s, 1, i - 1)>> \o split(SubSeq(s, i + 1, Len(s)))

---------------------------------------------------------------------------
(* The address and timestamp library calls of parse_lease.  A token either *)
(* parses to a value of the library's type or the call raises the          *)
(* library's format error.                                                 *)

\* The IP tokens that parse, with the octets of the address they denote.
IPv4Words ==
    [t \in {"1.1.1.1", "172.16.1.60"} |->
        IF t = "1.1.1.1" THEN <<1, 1, 1, 1>> ELSE <<172, 16, 1, 60>>]

\* The MAC tokens that parse, with the octets of the address they denote.
EUI48Words ==
    [t \in {"aa:bb:cc:dd:ee:ff", "AA-BB-CC-DD-EE-FF"} |->
        <<170, 187, 204, 221, 238, 255>>]

\* The expiry tokens that parse, with the epoch second they denote.
EpochSeconds == [t \in {"1535916991"} |-> 1535916991]

\* netaddr.IPAddress(token)
IPAddress(tok) ==
    IF Len(tok) = 1 /\ tok[1] \in DOMAIN IPv4Words
    THEN Return([type |-> "IPAddress", version |-> 4, words |-> IPv4Words[tok[1]]])
    ELSE Raise("AddrFormatError", 82)

\* netaddr.EUI(token)
EUI(tok) ==
    IF Len(tok) = 1 /\ tok[1] \in DOMAIN EUI48Words
    THEN Return([type |-> "EUI", version |-> 48, words |-> EUI48Words[tok[1]]])
    ELSE Raise("AddrFormatError", 83)

\* The texts that have the shape of a date and name no date: arrow matches
\* them and the datetime constructor raises ValueError.
NoSuchDates == {"2018-02-30"}

\* arrow.get(token)
arrow_get(tok) ==
    IF Len(tok) = 1 /\ tok[1] \in DOMAIN EpochSeconds
    THEN Return([type |-> "Arrow", timestamp |-> EpochSeconds[tok[1]]])
    ELSE IF Len(tok) = 1 /\ tok[1] \in NoSuchDates
         THEN Raise("ValueError", 90)
         ELSE Raise("ParserError", 90)

---------------------------------------------------------------------------
(* parse_lease.                                                            *)

\* The record type parse_lease returns.
LeaseRecord(client_id, hostname, ip_address, lease_expiry_time, mac_address) ==
    [type |-> "LeaseRecord",
     ip_address |-> ip_address,
     mac_address |-> mac_address,
     lease_expiry_time |-> lease_expiry_time,
     client_id |-> client_id,
     hostname |-> hostname]

\* A variant of InputRejected that forgets the emptiness test.
InputRejectedTypeOnly(line) == line.type # "str"

\* The guard of the first statement of parse_lease.
InputRejected(line) == ~Truthy(line) \/ line.type # "str"

\* The number of targets of the unpacking assignment.
UnpackTargets == 5

\* A variant of AddressHandler that leaves the library's format error out.
AddressHandlerNarrow == {"AttributeError"}

\* The classes the except clause around the address parsing names.
AddressHandler == {"AttributeError", "AddrFormatError"}

\* A variant of ExpiryHandler that leaves the library's parser error out.
ExpiryHandlerNarrow == {"ValueError"}

\* The classes the except clause around the expiry parsing names.
ExpiryHandler == {"ValueError", "ParserError"}

\* The try block of the address parsing: IPAddress first, EUI only after it.
ParseAddresses(fields) ==
    LET ip == IPAddress(fields[3])
    IN  IF ip.kind = "raise" THEN ip
        ELSE LET mac == EUI(fields[2])
             IN  IF mac.kind = "raise" THEN mac
                 ELSE Return([ip_address |-> ip.value, mac_address |-> mac.value])

\* A variant of Sentinel that keeps the sentinel.
SentinelKept(field) == field

\* Sentinel substitution of hostname and client_id.
Sentinel(field) == IF field = <<"*">> THEN <<>> ELSE field

\* A variant of ParseFields that parses the expiry before the addresses.
ParseFieldsExpiryFirst(fields) ==
    LET expiry == arrow_get(fields[1])
    IN  IF expiry.kind = "raise"
        THEN IF Catches(ExpiryHandler, expiry.exc)
             THEN Raise("LeaseParseError", 92)
             ELSE expiry
        ELSE
        LET addr == ParseAddresses(fields)
        IN  IF addr.kind = "raise"
            THEN IF Catches(AddressHandler, addr.exc)
                 THEN Raise("LeaseParseError", 85)
                 ELSE addr
            ELSE Return(LeaseRecord(Sentinel(fields[5]),
                                    Sentinel(fields[4]),
                                    addr.value.ip_address,
                                    expiry.value,
                                    addr.value.mac_address))

\* parse_lease from the address parsing on, for the five fields of a line.
ParseFields(fields) ==
    LET addr == ParseAddresses(fields)
    IN  IF addr.kind = "raise"
        THEN IF Catches(AddressHandler, addr.exc)
             THEN Raise("LeaseParseError", 85)
             ELSE addr
        ELSE
        LET expiry == arrow_get(fields[1])
        IN  IF expiry.kind = "raise"
            THEN IF Catches(ExpiryHandler, expiry.exc)
                 THEN Raise("LeaseParseError", 92)
                 ELSE expiry
            ELSE Return(LeaseRecord(Sentinel(fields[5]),
                                    Sentinel(fields[4]),
                                    addr.value.ip_address,
                                    expiry.value,
                                    addr.value.mac_address))

\* parse_lease(lease_line): the outcome of the call.  An unpacking of other
\* than five values raises ValueError at the assignment.
parse_lease(line) ==
    IF InputRejected(line) THEN Raise("ValueError", 73)
    ELSE LET fields == split(strip(line.s))
         IN  IF Len(fields) # UnpackTargets
             THEN Raise("ValueError", 80)
             ELSE ParseFields(fields)

---------------------------------------------------------------------------
(* The inputs of parse_lease: lines written field by field.                *)

\* The words written at each field position (good and malformed ones).
FieldWords(i) ==
    CASE i = 1 -> {"1535916991", "153596608a", "not-an-integer", "2018-02-30", "*"}
      [] i = 2 -> {"aa:bb:cc:dd:ee:ff", "AA-BB-CC-DD-EE-FF", "aa:bb:cc:dd:ee:zz", "*"}
      [] i = 3 -> {"1.1.1.1", "172.16.1.60", "1.2.3.a", "*"}
      [] i = 4 -> {"*", "some-hostname"}
      [] i = 5 -> {"*", "01:aa:bb:cc:dd:ee:ff"}
      [] OTHER -> {"*"}

\* The words of `words` joined by one space, two spaces after word `wide`.
RECURSIVE Join(_, _, _)
Join(words, k, wide) ==
    IF k > Len(words) THEN <<>>
    ELSE <<words[k]>>
         \o (IF k = Len(words) THEN <<>>
             ELSE IF k = wide THEN <<Space, Space>> ELSE <<Space>>)
         \o Join(words, k + 1, wide)

\* The ways of writing n fields.
RECURSIVE FieldLists(_)
FieldLists(n) ==
    IF n = 0 THEN {<<>>}
    ELSE {Append(w, x) : w \in FieldLists(n - 1), x \in FieldWords(n)}

\* Whitespace before the first field.
LeadPads == {<<>>, <<Space>>}

\* Whitespace after the last field.
TrailPads == {<<>>, <<Newline>>, <<Space, Newline>>}

\* The texts of the generated lines.
LineTexts ==
    {lead \o Join(w, 1, wide) \o trail :
        lead \in LeadPads, trail \in TrailPads,
        w \in UNION {FieldLists(n) : n \in 0..MaxFields},
        wide \in 0..(MaxFields - 1)}

\* The arguments parse_lease is called with: strings, None and integers.
LeaseLineInputs == {PyStr(s) : s \in LineTexts} \cup {PyNone, PyInt(0), PyInt(123)}

---------------------------------------------------------------------------
(* The file system and get_lease_file.                                     *)

\* The two default locations of the lease file, in the order they are tried.
DefaultPaths ==
    <<PyStr(<<"/var/lib/misc/dnsmasq.leases">>),
      PyStr(<<"/etc/dnsmasq.d/dnsmasq.leases">>)>>

\* The path the leases handler passes to get_lease_file.
LeaseFilePath == PyStr(<<"backend/api/../../static/leasefile">>)

\* The name a path value gives to open().
PathName(p) == p.s[1]

PathNames == {PathName(DefaultPaths[1]), PathName(DefaultPaths[2]),
              PathName(LeaseFilePath)}

\* Lines as readlines() yields them.
SampleLines ==
    <<<<"1535916991", Space, "aa:bb:cc:dd:ee:ff", Space, "172.16.1.60", Space,
        "some-hostname", Space, "01:aa:bb:cc:dd:ee:ff", Newline>>,
      <<"1535916991", Space, "AA-BB-CC-DD-EE-FF", Space, "1.1.1.1", Space,
        "*", Space, "*", Newline>>,
      <<"1535916991", Space, "aa:bb:cc:dd:ee:zz", Space, "1.1.1.1", Space,
        "*", Space, "*", Newline>>,
      <<"1535916991", Space, "aa:bb:cc:dd:ee:ff", Space, "1.1.1.1", Space,
        "*", Newline>>>>

\* The contents of the file at the explicit path: up to MaxLines lines.
ExplicitContents ==
    UNION {[1..n -> {SampleLines[k] : k \in DOMAIN SampleLines}] : n \in 0..MaxLines}

\* The contents of the files at the default paths.
DefaultContents == {<<SampleLines[2]>>, <<SampleLines[1], SampleLines[1]>>}

\* The states of one file: readable with some contents, or failing at open()
\* (ENOENT, EACCES) or at readlines() (EIO, bytes that do not decode).
FileStates(contents) ==
    {[status |-> "ok", lines |-> c] : c \in contents}
    \cup {[status |-> st, lines |-> <<SampleLines[1]>>] :
             st \in {"EACCES", "EIO", "undecodable"}}
    \cup {[status |-> "ENOENT", lines |-> <<>>]}

\* The file systems: any state of each of the three files.
FsStates ==
    {[p \in PathNames |->
         IF p = PathName(LeaseFilePath) THEN e
         ELSE IF p = PathName(DefaultPaths[1]) THEN a ELSE b] :
        e \in FileStates(ExplicitContents),
        a \in FileStates(DefaultContents),
        b \in FileStates(DefaultContents)}

\* The arguments get_lease_file is called with.
PathArgs == {PyNone, PyStr(<<>>), PyInt(123), LeaseFilePath, DefaultPaths[2]}

\* A variant of Candidates whose list outlives the call: the path is inserted
\* into the list the call before left behind.
CandidatesKept(p) ==
    LET kept == IF files_to_try = <<>> THEN DefaultPaths ELSE files_to_try
    IN  IF Truthy(p) /\ p.type = "str" THEN <<p>> \o kept ELSE kept

\* A variant of Candidates that puts the explicit path after the defaults.
CandidatesAppended(p) ==
    IF Truthy(p) /\ p.type = "str" THEN DefaultPaths \o <<p>> ELSE DefaultPaths

\* The candidate list get_lease_file builds from its argument.
Candidates(p) ==
    IF Truthy(p) /\ p.type = "str" THEN <<p>> \o DefaultPaths ELSE DefaultPaths

\* The body of the try block for one file: open() and readlines().
OpenAndRead(file) ==
    LET f == fs[PathName(file)]
    IN  CASE f.status = "ok" -> Return(f.lines)
          [] f.status = "ENOENT" -> Raise("FileNotFoundError", 47)
          [] f.status = "EACCES" -> Raise("PermissionError", 47)
          [] f.status = "EIO" -> Raise("OSError", 49)
          [] f.status = "undecodable" -> Raise("UnicodeDecodeError", 49)

\* The classes the except clause of the loop names.
OpenHandler == {"IOError"}

\* files_to_try is built.
BuildCandidates ==
    /\ r_pc = "start"
    /\ files_to_try' = Candidates(path)
    /\ opened' = <<>>
    /\ file_out' = Pending
    /\ r_pc' = "loop"
    /\ UNCHANGED <<fs, path, parser_vars, leases_vars, calls,
                   validator_vars>>

\* One iteration of the loop over files_to_try.
TryFile ==
    /\ r_pc = "loop"
    /\ Len(opened) < Len(files_to_try)
    /\ LET file == files_to_try[Len(opened) + 1]
           got == OpenAndRead(file)
       IN  /\ opened' = Append(opened, file)
           /\ IF got.kind = "return"
              THEN file_out' = got /\ r_pc' = "done"
              ELSE IF Catches(OpenHandler, got.exc)
                   THEN file_out' = file_out /\ r_pc' = "loop"
                   ELSE file_out' = got /\ r_pc' = "done"
    /\ UNCHANGED <<fs, path, files_to_try, parser_vars, leases_vars, calls,
                   validator_vars>>

\* The loop ran out of files.
Exhausted ==
    /\ r_pc = "loop"
    /\ Len(opened) = Len(files_to_try)
    /\ file_out' = Raise("LeaseParseError", 60)
    /\ r_pc' = "done"
    /\ UNCHANGED <<fs, path, files_to_try, opened, parser_vars, leases_vars, calls,
                   validator_vars>>

---------------------------------------------------------------------------
(* LeaseRecord.serialise and the leases handler.                           *)

HexDigits == <<"0", "1", "2", "3", "4", "5", "6", "7",
               "8", "9", "A", "B", "C", "D", "E", "F">>

Hex2(n) == HexDigits[(n \div 16) + 1] \o HexDigits[(n % 16) + 1]

\* str() of an IPAddress: dotted decimal.
StrIPAddress(a) ==
    ToString(a.words[1]) \o "." \o ToString(a.words[2]) \o "."
    \o ToString(a.words[3]) \o "." \o ToString(a.words[4])

\* A variant of StrEUI that writes the octets the way the lease file does,
\* joined by colons.
StrEUIColons(a) ==
    Hex2(a.words[1]) \o ":" \o Hex2(a.words[2]) \o ":" \o Hex2(a.words[3])
    \o ":" \o Hex2(a.words[4]) \o ":" \o Hex2(a.words[5]) \o ":" \o Hex2(a.words[6])

\* str() of an EUI: upper-case hexadecimal octets joined by hyphens.
StrEUI(a) ==
    Hex2(a.words[1]) \o "-" \o Hex2(a.words[2]) \o "-" \o Hex2(a.words[3])
    \o "-" \o Hex2(a.words[4]) \o "-" \o Hex2(a.words[5]) \o "-" \o Hex2(a.words[6])

\* str() of an Arrow: the ISO 8601 text of the instant, in UTC.
StrArrow(a) ==
    CASE a.timestamp = 1535916991 -> "2018-09-02T19:36:31+00:00"
      [] OTHER -> ToString(a.timestamp)

\* LeaseRecord.serialise
serialise(r) ==
    [ip_address |-> <<StrIPAddress(r.ip_address)>>,
     mac_address |-> <<StrEUI(r.mac_address)>>,
     lease_expiry_time |-> <<StrArrow(r.lease_expiry_time)>>,
     client_id |-> r.client_id,
     hostname |-> r.hostname]

\* leases calls get_lease_file with the path of the static lease file.
LeasesCall ==
    /\ l_pc = "start"
    /\ r_pc = "idle"
    /\ path' = LeaseFilePath
    /\ r_pc' = "start"
    /\ l_pc' = "reading"
    /\ UNCHANGED <<fs, files_to_try, opened, file_out, parser_vars,
                   lease_records, l_out, calls, validator_vars>>

\* get_lease_file is back: its exception escapes, or the comprehension starts.
LeasesRead ==
    /\ l_pc = "reading"
    /\ r_pc = "done"
    /\ IF file_out.kind = "raise"
       THEN l_out' = file_out /\ l_pc' = "done"
       ELSE l_out' = l_out /\ l_pc' = "parsing"
    /\ UNCHANGED <<reader_vars, parser_vars, lease_records, calls,
                   validator_vars>>

\* A variant of LeasesParse that puts each new record in front of the list.
LeasesParsePrepending ==
    /\ l_pc = "parsing"
    /\ Len(lease_records) < Len(file_out.value)
    /\ LET lease == PyStr(file_out.value[Len(lease_records) + 1])
           got == parse_lease(lease)
       IN  /\ lease_line' = lease
           /\ parsed' = got
           /\ IF got.kind = "raise"
              THEN /\ l_out' = got
                   /\ l_pc' = "done"
                   /\ lease_records' = lease_records
              ELSE /\ lease_records' = <<serialise(got.value)>> \o lease_records
                   /\ UNCHANGED <<l_out, l_pc>>
    /\ UNCHANGED <<reader_vars, calls, validator_vars>>

\* A variant of LeasesParse that answers with the records built so far when
\* a line fails to parse.
LeasesParsePartial ==
    /\ l_pc = "parsing"
    /\ Len(lease_records) < Len(file_out.value)
    /\ LET lease == PyStr(file_out.value[Len(lease_records) + 1])
           got == parse_lease(lease)
       IN  /\ lease_line' = lease
           /\ parsed' = got
           /\ IF got.kind = "raise"
              THEN /\ l_out' = Return(lease_records)
                   /\ l_pc' = "done"
                   /\ lease_records' = lease_records
              ELSE /\ lease_records' = Append(lease_records, serialise(got.value))
                   /\ UNCHANGED <<l_out, l_pc>>
    /\ UNCHANGED <<reader_vars, calls, validator_vars>>

\* One iteration of the comprehension: parse_lease(lease).serialise().
LeasesParse ==
    /\ l_pc = "parsing"
    /\ Len(lease_records) < Len(file_out.value)
    /\ LET lease == PyStr(file_out.value[Len(lease_records) + 1])
           got == parse_lease(lease)
       IN  /\ lease_line' = lease
           /\ parsed' = got
           /\ IF got.kind = "raise"
              THEN /\ l_out' = got
                   /\ l_pc' = "done"
                   /\ lease_records' = lease_records
              ELSE /\ lease_records' = Append(lease_records, serialise(got.value))
                   /\ UNCHANGED <<l_out, l_pc>>
    /\ UNCHANGED <<reader_vars, calls, validator_vars>>

\* The comprehension is exhausted: the list is returned.
LeasesReturn ==
    /\ l_pc = "parsing"
    /\ Len(lease_records) = Len(file_out.value)
    /\ l_out' = Return(lease_records)
    /\ l_pc' = "done"
    /\ UNCHANGED <<reader_vars, parser_vars, lease_records, calls,
                   validator_vars>>

---------------------------------------------------------------------------
(* The validators.  A validator is a record of its class and of what its   *)
(* constructor stored: allow_null and format_str or version.               *)

ArrowValidator(format_str, allow_null) ==
    [kind |-> "ArrowValidator", format_str |-> format_str, allow_null |-> allow_null]

IPAddressValidator(version, allow_null) ==
    [kind |-> "IPAddressValidator", version |-> version, allow_null |-> allow_null]

MACValidator(version, allow_null) ==
    [kind |-> "MACValidator", version |-> version, allow_null |-> allow_null]

\* A value of a type no validator converts.
PyList == [type |-> "list"]

\* The values of the libraries' types.
Arrow(timestamp) == [type |-> "Arrow", timestamp |-> timestamp]
IPv4(words) == [type |-> "IPAddress", version |-> 4, words |-> words]
IPv6(words) == [type |-> "IPAddress", version |-> 6, words |-> words]
EUI48(words) == [type |-> "EUI", version |-> 48, words |-> words]
EUI64(words) == [type |-> "EUI", version |-> 64, words |-> words]

\* null_values of the three classes.
null_values == {PyNone, PyStr(<<>>), PyStr(<<"null">>), PyStr(<<"none">>)}

\* arrow.get(value) and arrow.get(value, format_str) for a str or int value.
\* A text that is no date raises ParserError; a date that does not exist
\* raises the ValueError of the datetime constructor.
ArrowGet(value, format_str) ==
    CASE value.type = "int" /\ ~Truthy(format_str) -> Return(Arrow(value.v))
      [] value.type = "str" /\ ~Truthy(format_str) ->
             IF value.s = <<"1535916991">> THEN Return(Arrow(1535916991))
             ELSE IF Len(value.s) = 1 /\ value.s[1] \in NoSuchDates
                  THEN Raise("ValueError", 84)
             ELSE Raise("ParserError", 84)
      [] value.type = "str" /\ Truthy(format_str) ->
             IF value.s = <<"01/04/2018">> /\ format_str.s = <<"DD/MM/YYYY">>
             THEN Return(Arrow(1522540800))
             ELSE Raise("ParserError", 80)

\* netaddr.IPAddress(value) and netaddr.IPAddress(value, version) for a str
\* or int value.
IPAddressGet(value, version, l) ==
    LET v4 == ~Truthy(version) \/ version.v = 4
        v6 == ~Truthy(version) \/ version.v = 6
    IN  CASE value.type = "int" ->
                 IF v4 THEN Return(IPv4(<<0, 0, 0, value.v>>))
                 ELSE Return(IPv6(<<0, 0, 0, 0, 0, 0, 0, value.v>>))
          [] value.type = "str" /\ value.s = <<"1.2.3.4">> /\ v4 ->
                 Return(IPv4(<<1, 2, 3, 4>>))
          [] value.type = "str" /\ value.s = <<"::">> /\ v6 ->
                 Return(IPv6(<<0, 0, 0, 0, 0, 0, 0, 0>>))
          [] OTHER -> Raise("AddrFormatError", l)

\* netaddr.EUI(value) and netaddr.EUI(value, version) for a str or int value.
EUIGet(value, version, l) ==
    LET v48 == ~Truthy(version) \/ version.v = 48
        v64 == ~Truthy(version) \/ version.v = 64
    IN  CASE value.type = "int" ->
                 IF v48 THEN Return(EUI48(<<0, 0, 0, 0, 0, value.v>>))
                 ELSE Return(EUI64(<<0, 0, 0, 0, 0, 0, 0, value.v>>))
          [] value.type = "str" /\ value.s = <<"11-22-33-44-55-66">> /\ v48 ->
                 Return(EUI48(<<17, 34, 51, 68, 85, 102>>))
          [] value.type = "str" /\ value.s = <<"00-00-00-00-00-00-00-01">> /\ v64 ->
                 Return(EUI64(<<0, 0, 0, 0, 0, 0, 0, 1>>))
          [] OTHER -> Raise("AddrFormatError", l)

\* Validator.error(code)
error(l) == Raise("ValidationError", l)

\* The body of the loop over null_values once the value matched an example.
NullOutcome(self, l) ==
    IF self.allow_null THEN Return(PyNone) ELSE error(l)

\* The try statement of the three validate methods: the outcome `got` of the
\* conversion is returned, or its exception is caught and 'parse' raised.
Coerced(got, handler, l) ==
    IF got.kind = "raise" /\ Catches(handler, got.exc) THEN error(l) ELSE got

\* ArrowValidator.validate
ArrowValidator_validate(self, val, coerce) ==
    IF val \in null_values THEN NullOutcome(self, 64)
    ELSE IF val.type # "Arrow"
         THEN IF coerce /\ val.type \in {"str", "int", "float", "date", "datetime"}
              THEN Coerced(ArrowGet(val, self.format_str), {"ParserError"}, 91)
              ELSE error(91)
         ELSE Return(val)

\* A variant of IPAddressValidator.validate that looks for the null values
\* after the conversion instead of before it.
IPAddressValidator_validateNullLast(self, val, coerce) ==
    IF val.type # "IPAddress"
    THEN IF coerce /\ val.type \in {"str", "int"}
         THEN Coerced(IPAddressGet(val, self.version,
                                   IF Truthy(self.version) THEN 160 ELSE 164),
                      {"AddrFormatError"}, 171)
         ELSE IF val \in null_values THEN NullOutcome(self, 144) ELSE error(171)
    ELSE Return(val)

\* IPAddressValidator.validate
IPAddressValidator_validate(self, val, coerce) ==
    IF val \in null_values THEN NullOutcome(self, 144)
    ELSE IF val.type # "IPAddress"
         THEN IF coerce /\ val.type \in {"str", "int"}
              THEN Coerced(IPAddressGet(val, self.version,
                                        IF Truthy(self.version) THEN 160 ELSE 164),
                           {"AddrFormatError"}, 171)
              ELSE error(171)
         ELSE Return(val)

\* MACValidator.validate
MACValidator_validate(self, val, coerce) ==
    IF val \in null_values THEN NullOutcome(self, 226)
    ELSE IF val.type # "EUI"
         THEN IF coerce /\ val.type \in {"str", "int"}
              THEN Coerced(EUIGet(val, self.version,
                                  IF Truthy(self.version) THEN 241 ELSE 245),
                           {"AddrFormatError"}, 252)
              ELSE error(252)
         ELSE Return(val)

\* validator.validate(value, allow_coerce=...)
validate(self, val, coerce) ==
    CASE self.kind = "ArrowValidator" -> ArrowValidator_validate(self, val, coerce)
      [] self.kind = "IPAddressValidator" -> IPAddressValidator_validate(self, val, coerce)
      [] self.kind = "MACValidator" -> MACValidator_validate(self, val, coerce)

---------------------------------------------------------------------------
(* Specifications.                                                         *)

\* parse_lease is applied to its argument.
ParseLease ==
    /\ parsed = Pending
    /\ l_pc = "idle"
    /\ parsed' = parse_lease(lease_line)
    /\ UNCHANGED <<lease_line, reader_vars, leases_vars, calls, validator_vars>>

\* No validator is at work.
NoValidation ==
    /\ validator = [kind |-> "none"]
    /\ v_value = PyNone
    /\ allow_coerce = FALSE
    /\ v_out = Pending

\* No file exists.
IdleFs == [p \in PathNames |-> [status |-> "ENOENT", lines |-> <<>>]]

\* One call of parse_lease on any of the inputs.
InitParse ==
    /\ lease_line \in LeaseLineInputs
    /\ parsed = Pending
    /\ fs = IdleFs
    /\ path = PyNone
    /\ r_pc = "idle"
    /\ files_to_try = <<>>
    /\ opened = <<>>
    /\ file_out = Pending
    /\ l_pc = "idle"
    /\ lease_records = <<>>
    /\ l_out = Pending
    /\ calls = <<>>
    /\ NoValidation

NextParse == ParseLease

SpecParse == InitParse /\ [][NextParse]_vars

\* One call of get_lease_file with any argument on any file system.
InitReader ==
    /\ lease_line = PyNone
    /\ parsed = Pending
    /\ fs \in FsStates
    /\ path \in PathArgs
    /\ r_pc = "start"
    /\ files_to_try = <<>>
    /\ opened = <<>>
    /\ file_out = Pending
    /\ l_pc = "idle"
    /\ lease_records = <<>>
    /\ l_out = Pending
    /\ calls = <<>>
    /\ NoValidation

NextReader == BuildCandidates \/ TryFile \/ Exhausted

SpecReader == InitReader /\ [][NextReader]_vars

\* One request to the leases handler on any file system.
Init ==
    /\ lease_line = PyNone
    /\ parsed = Pending
    /\ fs \in FsStates
    /\ path = PyNone
    /\ r_pc = "idle"
    /\ files_to_try = <<>>
    /\ opened = <<>>
    /\ file_out = Pending
    /\ l_pc = "start"
    /\ lease_records = <<>>
    /\ l_out = Pending
    /\ calls = <<>>
    /\ NoValidation

Next ==
    \/ LeasesCall
    \/ BuildCandidates
    \/ TryFile
    \/ Exhausted
    \/ LeasesRead
    \/ LeasesParse
    \/ LeasesReturn

Spec == Init /\ [][Next]_vars

\* The file systems a process meets between its calls: each file holds one
\* of the default contents, is missing, or holds bytes that do not decode.
CallFsStates ==
    LET states == {[status |-> "ok", lines |-> c] : c \in DefaultContents}
                  \cup {[status |-> "undecodable", lines |-> <<SampleLines[1]>>],
                        [status |-> "ENOENT", lines |-> <<>>]}
    IN  {[p \in PathNames |->
             IF p = PathName(LeaseFilePath) THEN e
             ELSE IF p = PathName(DefaultPaths[1]) THEN a ELSE b] :
            e \in states, a \in states, b \in states}

\* The arguments of the calls of one process.
CallPathArgs == {PyNone, LeaseFilePath, DefaultPaths[2]}
CallLines == {PyNone, PyStr(SampleLines[1]), PyStr(SampleLines[3])}

\* get_lease_file is called again, on the file system as it is by then.  The
\* names of the call before still hold their last values.
CallGetLeaseFile ==
    /\ r_pc \in {"idle", "done"}
    /\ Len(calls) < MaxCalls
    /\ \E p \in CallPathArgs, f \in CallFsStates :
           /\ path' = p
           /\ fs' = f
           /\ calls' = Append(calls, p)
    /\ r_pc' = "start"
    /\ UNCHANGED <<files_to_try, opened, file_out, parser_vars, leases_vars,
                   validator_vars>>

\* parse_lease is called, between any two steps of the reader.
CallParseLease ==
    /\ \E line \in CallLines :
           /\ lease_line' = line
           /\ parsed' = parse_lease(line)
    /\ UNCHANGED <<reader_vars, leases_vars, calls, validator_vars>>

\* A process that calls get_lease_file and parse_lease again and again.
InitCalls ==
    /\ lease_line = PyNone
    /\ parsed = Pending
    /\ fs = IdleFs
    /\ path = PyNone
    /\ r_pc = "idle"
    /\ files_to_try = <<>>
    /\ opened = <<>>
    /\ file_out = Pending
    /\ l_pc = "idle"
    /\ lease_records = <<>>
    /\ l_out = Pending
    /\ calls = <<>>
    /\ NoValidation

NextCalls ==
    \/ CallGetLeaseFile
    \/ BuildCandidates
    \/ TryFile
    \/ Exhausted
    \/ CallParseLease

SpecCalls == InitCalls /\ [][NextCalls]_vars

\* The validators and the values they are handed: the null values, a value
\* of the validator's type, a value of a type that is not converted, texts
\* and the number 0.  A number goes to arrow.get alone, without format_str.
Texts(kind) ==
    CASE kind = "ArrowValidator" ->
             {PyStr(<<w>>) : w \in {"abc", "01/04/2018", "1535916991", "2018-02-30"}}
      [] kind = "IPAddressValidator" ->
             {PyStr(<<w>>) : w \in {"abc", "1.2.3.4", "::"}}
      [] kind = "MACValidator" ->
             {PyStr(<<w>>) : w \in {"abc", "11-22-33-44-55-66",
                                     "00-00-00-00-00-00-00-01"}}

Natives(kind) ==
    CASE kind = "ArrowValidator" -> {Arrow(0)}
      [] kind = "IPAddressValidator" ->
             {IPv4(<<1, 2, 3, 4>>), IPv6(<<0, 0, 0, 0, 0, 0, 0, 0>>)}
      [] kind = "MACValidator" ->
             {EUI48(<<17, 34, 51, 68, 85, 102>>), EUI64(<<0, 0, 0, 0, 0, 0, 0, 1>>)}

Validators ==
    {ArrowValidator(f, n) : f \in {PyNone, PyStr(<<"DD/MM/YYYY">>)}, n \in BOOLEAN}
    \cup {IPAddressValidator(v, n) : v \in {PyNone, PyInt(4), PyInt(6)}, n \in BOOLEAN}
    \cup {MACValidator(v, n) : v \in {PyNone, PyInt(48), PyInt(64)}, n \in BOOLEAN}

ValidateValues(self) ==
    null_values \cup Natives(self.kind) \cup Texts(self.kind) \cup {PyList}
    \cup (IF self.kind = "ArrowValidator" /\ Truthy(self.format_str)
          THEN {} ELSE {PyInt(0)})

\* validate is applied to its arguments.
Validate ==
    /\ validator.kind # "none"
    /\ v_out = Pending
    /\ v_out' = validate(validator, v_value, allow_coerce)
    /\ UNCHANGED <<validator, v_value, allow_coerce, reader_vars, parser_vars,
                   leases_vars, calls>>

\* One call of validate of any validator on any of the values.
InitValidate ==
    /\ lease_line = PyNone
    /\ parsed = Pending
    /\ fs = IdleFs
    /\ path = PyNone
    /\ r_pc = "idle"
    /\ files_to_try = <<>>
    /\ opened = <<>>
    /\ file_out = Pending
    /\ l_pc = "idle"
    /\ lease_records = <<>>
    /\ l_out = Pending
    /\ calls = <<>>
    /\ validator \in Validators
    /\ v_value \in ValidateValues(validator)
    /\ allow_coerce \in BOOLEAN
    /\ v_out = Pending

NextValidate == Validate

SpecValidate == InitValidate /\ [][NextValidate]_vars


---------------------------------------------------------------------------
(* The vocabulary of the properties: the tokens of a line, read off the    *)
(* text by the positions of its spaces.                                    *)

\* The text without its leading and trailing whitespace.
Trimmed(t) ==
    LET keep == {i \in 1..Len(t) : t[i] # Space /\ t[i] # Newline}
    IN  IF keep = {} THEN <<>>
        ELSE SubSeq(t, CHOOSE i \in keep : \A j \in keep : i <= j,
                       CHOOSE i \in keep : \A j \in keep : j <= i)

SpacesAt(t) == {i \in 1..Len(t) : t[i] = Space}

\* The number of single-space-separated tokens of t.
TokenCount(t) == Cardinality(SpacesAt(t)) + 1

\* The position of the m-th space of t (0 before the text, Len + 1 after it).
CutAt(t, m) ==
    IF m = 0 THEN 0
    ELSE IF m > Cardinality(SpacesAt(t)) THEN Len(t) + 1
    ELSE CHOOSE i \in SpacesAt(t) : Cardinality({j \in SpacesAt(t) : j <= i}) = m

\* The k-th token of t.
Token(t, k) == SubSeq(t, CutAt(t, k - 1) + 1, CutAt(t, k) - 1)

\* parse_lease was called with a non-empty string and has ended.
ParsedString == parsed # Pending /\ lease_line.type = "str" /\ lease_line.s # <<>>

\* The stripped text of the argument.
ArgText == Trimmed(lease_line.s)

\* The argument is a line of five tokens.
FiveTokens == ParsedString /\ TokenCount(ArgText) = 5

ValidIP(tok) == IPAddress(tok).kind = "return"

ValidMAC(tok) == EUI(tok).kind = "return"

ValidExpiry(tok) == arrow_get(tok).kind = "return"

\* The sentinel rule, as the specification words it.
Absent(tok) == IF tok = <<"*">> THEN <<>> ELSE tok

---------------------------------------------------------------------------
(* Properties of parse_lease (checked under SpecParse).                    *)

\* C1: for a line of exactly five single-space-separated tokens with valid
\* expiry, MAC and IP tokens, parse_lease returns a record whose ip_address,
\* mac_address and lease_expiry_time are the parsed third, second and first
\* token and whose hostname and client_id are the fourth and fifth token,
\* each replaced by the empty string when it is the literal "*".
C1_ParseReturnsFields ==
    (/\ FiveTokens
     /\ ValidExpiry(Token(ArgText, 1))
     /\ ValidMAC(Token(ArgText, 2))
     /\ ValidIP(Token(ArgText, 3)))
    => /\ parsed.kind = "return"
       /\ parsed.value.ip_address = IPAddress(Token(ArgText, 3)).value
       /\ parsed.value.mac_address = EUI(Token(ArgText, 2)).value
       /\ parsed.value.lease_expiry_time = arrow_get(Token(ArgText, 1)).value
       /\ parsed.value.hostname = Absent(Token(ArgText, 4))
       /\ parsed.value.client_id = Absent(Token(ArgText, 5))

\* A line with the sentinel as hostname and a real client id was parsed: the
\* two fields are substituted independently.
C1_Witness ==
    /\ FiveTokens
    /\ parsed.kind = "return"
    /\ Token(ArgText, 4) = <<"*">>
    /\ Token(ArgText, 5) = <<"01:aa:bb:cc:dd:ee:ff">>
    /\ parsed.value.hostname = <<>>
    /\ parsed.value.client_id = <<"01:aa:bb:cc:dd:ee:ff">>
    /\ parsed.value.ip_address.words = <<172, 16, 1, 60>>

\* C5 (as claimed): a line whose stripped text has a number of tokens other
\* than five fails with an error of the LeaseParseError family, which the
\* ValueError raised for empty or non-string input is not.
C5_FieldCountIsParseError ==
    (ParsedString /\ TokenCount(ArgText) # 5)
    => /\ parsed.kind = "raise"
       /\ "LeaseParseError" \in Bases(parsed.exc)
       /\ parsed.exc # parse_lease(PyStr(<<>>)).exc

\* C6: parse_lease called with the empty string or a non-string value fails
\* with ValueError, which is no LeaseParseError, at the first statement of
\* the function, before the input is stripped or split.
C6_InvalidArgument ==
    (parsed # Pending /\ (lease_line.type # "str" \/ lease_line = PyStr(<<>>)))
    => /\ parsed.kind = "raise"
       /\ parsed.exc = "ValueError"
       /\ "LeaseParseError" \notin Bases(parsed.exc)
       /\ parsed.line = 73

\* The empty string was rejected.
C6_Witness ==
    /\ parsed # Pending
    /\ lease_line = PyStr(<<>>)
    /\ parsed.kind = "raise"
    /\ parsed.line = 73

\* C7: the checks run in the order input check, field count, addresses,
\* expiry: the call ends at the first of them that fails, so a five-token
\* line with a bad address and a bad expiry fails at the address parsing and
\* a line with a wrong token count fails at the unpacking, whatever its
\* tokens are.
C7_CheckOrder ==
    parsed # Pending =>
        /\ (lease_line.type # "str" \/ lease_line = PyStr(<<>>))
               => (parsed.kind = "raise" /\ parsed.line = 73)
        /\ (ParsedString /\ TokenCount(ArgText) # 5)
               => (parsed.kind = "raise" /\ parsed.line = 80)
        /\ (FiveTokens /\ ~(ValidIP(Token(ArgText, 3)) /\ ValidMAC(Token(ArgText, 2))))
               => (parsed.kind = "raise" /\ parsed.line = 85)
        /\ (/\ FiveTokens
            /\ ValidIP(Token(ArgText, 3))
            /\ ValidMAC(Token(ArgText, 2))
            /\ ~ValidExpiry(Token(ArgText, 1)))
               => (parsed.kind = "raise" /\ parsed.line = 92)

\* A five-token line with a bad MAC and a bad expiry failed at the addresses.
C7_Witness ==
    /\ FiveTokens
    /\ ~ValidMAC(Token(ArgText, 2))
    /\ ~ValidExpiry(Token(ArgText, 1))
    /\ parsed.kind = "raise"
    /\ parsed.line = 85

\* C8: a five-token line whose IP token or MAC token does not parse fails
\* with LeaseParseError, raised by the address handler, and gives no record,
\* whatever the other three tokens are.
C8_AddressFormat ==
    (FiveTokens /\ (~ValidIP(Token(ArgText, 3)) \/ ~ValidMAC(Token(ArgText, 2))))
    => parsed = Raise("LeaseParseError", 85)

\* A line with a good IP, a good expiry and a bad MAC was rejected.
C8_Witness ==
    /\ FiveTokens
    /\ ValidIP(Token(ArgText, 3))
    /\ ValidExpiry(Token(ArgText, 1))
    /\ Token(ArgText, 2) = <<"aa:bb:cc:dd:ee:zz">>
    /\ parsed.kind = "raise"
    /\ parsed.exc = "LeaseParseError"

\* C9: a five-token line with valid IP and MAC tokens whose expiry token
\* does not parse fails with LeaseParseError, raised by the expiry handler,
\* and gives no record; no other exception escapes.
C9_Timestamp ==
    (/\ FiveTokens
     /\ ValidIP(Token(ArgText, 3))
     /\ ValidMAC(Token(ArgText, 2))
     /\ ~ValidExpiry(Token(ArgText, 1)))
    => parsed = Raise("LeaseParseError", 92)

\* A line with good addresses and the expiry 153596608a was rejected.
C9_Witness ==
    /\ FiveTokens
    /\ ValidIP(Token(ArgText, 3))
    /\ ValidMAC(Token(ArgText, 2))
    /\ Token(ArgText, 1) = <<"153596608a">>
    /\ parsed.kind = "raise"
    /\ parsed.exc = "LeaseParseError"

---------------------------------------------------------------------------
(* Properties of get_lease_file (checked under SpecReader).                *)

\* The candidate list as the specification gives it: the explicit path, if
\* one is supplied, then the two default paths.
ClaimedCandidates ==
    IF path.type = "str" /\ path.s # <<>>
    THEN <<path,
           PyStr(<<"/var/lib/misc/dnsmasq.leases">>),
           PyStr(<<"/etc/dnsmasq.d/dnsmasq.leases">>)>>
    ELSE <<PyStr(<<"/var/lib/misc/dnsmasq.leases">>),
           PyStr(<<"/etc/dnsmasq.d/dnsmasq.leases">>)>>

\* The file at the path opens and reads.
Readable(p) == fs[PathName(p)].status = "ok"

C3_AllFailRaisesLeaseParseError ==
    r_pc = "done" =>
        /\ (\A k \in 1..Len(ClaimedCandidates) : ~Readable(ClaimedCandidates[k]))
               => (file_out.kind = "raise" /\ "LeaseParseError" \in Bases(file_out.exc))
        /\ file_out.kind = "return"
               => \E k \in 1..Len(ClaimedCandidates) :
                      /\ Readable(ClaimedCandidates[k])
                      /\ file_out.value = fs[PathName(ClaimedCandidates[k])].lines

\* C4 (as claimed): a candidate that fails, for whatever reason, is skipped
\* without raising and the next one is tried: a call that ends with an
\* exception has tried every candidate.
C4_FailedCandidateSkipped ==
    (r_pc = "done" /\ file_out.kind = "raise") => opened = ClaimedCandidates

---------------------------------------------------------------------------
(* Properties of the leases handler (checked under Spec).                  *)

\* The line parses: five tokens with valid expiry, MAC and IP.
WellFormed(text) ==
    /\ TokenCount(Trimmed(text)) = 5
    /\ ValidExpiry(Token(Trimmed(text), 1))
    /\ ValidMAC(Token(Trimmed(text), 2))
    /\ ValidIP(Token(Trimmed(text), 3))

\* The lines of the file the reader returned that do not parse.
Malformed == {i \in 1..Len(file_out.value) : ~WellFormed(file_out.value[i])}

\* C10: the listing is all-or-nothing.  If the reader fails, the handler
\* fails with the reader's error; if a line fails to parse, the handler
\* fails with the error of the first such line; in both cases nothing is
\* returned, the records of the earlier lines included.
C10_AllOrNothing ==
    l_pc = "done" =>
        /\ file_out.kind = "raise" => l_out = file_out
        /\ (file_out.kind = "return" /\ Malformed # {}) =>
               LET i == CHOOSE k \in Malformed : \A j \in Malformed : k <= j
               IN  /\ l_out.kind = "raise"
                   /\ lease_line = PyStr(file_out.value[i])
                   /\ l_out = parsed
                   /\ Len(lease_records) = i - 1

\* The second line of the file failed after the first had been parsed and
\* serialised: the handler failed and the record was dropped.
C10_Witness ==
    /\ l_pc = "done"
    /\ file_out.kind = "return"
    /\ Len(lease_records) = 1
    /\ l_out.kind = "raise"
    /\ l_out.exc = "LeaseParseError"

\* C11: when every line of the file parses, the listing holds one record
\* per line, in file order: its i-th record is the serialised record of the
\* i-th line, and equal lines each give their own record.
C11_OneRecordPerLine ==
    (l_pc = "done" /\ file_out.kind = "return" /\ Malformed = {}) =>
        /\ l_out.kind = "return"
        /\ Len(l_out.value) = Len(file_out.value)
        /\ \A i \in 1..Len(file_out.value) :
               /\ l_out.value[i] = serialise(parse_lease(PyStr(file_out.value[i])).value)
               /\ l_out.value[i].ip_address = Token(Trimmed(file_out.value[i]), 3)
               /\ l_out.value[i].hostname = Absent(Token(Trimmed(file_out.value[i]), 4))

\* A file of two different lines was listed: two records, the first with
\* the hostname of the first line, the second with that of the second.
C11_Witness ==
    /\ l_pc = "done"
    /\ file_out.kind = "return"
    /\ l_out.kind = "return"
    /\ Len(l_out.value) = 2
    /\ file_out.value[1] # file_out.value[2]
    /\ l_out.value[1].hostname = <<"some-hostname">>
    /\ l_out.value[2].hostname = <<>>

\* The canonical text of the MAC tokens: upper-case octets joined by hyphens.
CanonicalMAC(tok) ==
    IF tok \in {<<"aa:bb:cc:dd:ee:ff">>, <<"AA-BB-CC-DD-EE-FF">>}
    THEN <<"AA-BB-CC-DD-EE-FF">>
    ELSE tok

\* A text: a Python str, as the model writes it.
IsText(v) == v \in Seq(STRING)

\* C12: the serialised form of a record parse_lease produced has exactly
\* the five keys, every value a string; ip_address and mac_address are the
\* canonical text of the line's IP and MAC token (the same text when the
\* token is canonical already), hostname and client_id are the record's.
C12_Serialise ==
    (l_pc \in {"parsing", "done"} /\ parsed.kind = "return") =>
        LET rec == lease_records[Len(lease_records)]
            text == Trimmed(lease_line.s)
        IN  /\ DOMAIN rec = {"ip_address", "mac_address", "lease_expiry_time",
                             "client_id", "hostname"}
            /\ \A k \in DOMAIN rec : IsText(rec[k])
            /\ Len(rec.lease_expiry_time) = 1
            /\ rec.ip_address = Token(text, 3)
            /\ rec.mac_address = CanonicalMAC(Token(text, 2))
            /\ rec.hostname = parsed.value.hostname
            /\ rec.client_id = parsed.value.client_id

\* A line with the MAC in canonical form was serialised to the same text,
\* and so was its IP.
C12_Witness ==
    /\ l_pc \in {"parsing", "done"}
    /\ parsed.kind = "return"
    /\ Token(Trimmed(lease_line.s), 2) = <<"AA-BB-CC-DD-EE-FF">>
    /\ lease_records[Len(lease_records)].mac_address = <<"AA-BB-CC-DD-EE-FF">>
    /\ lease_records[Len(lease_records)].ip_address = <<"1.1.1.1">>

---------------------------------------------------------------------------
(* Properties of repeated calls (checked under SpecCalls).                 *)

\* The outcome of a call made by a process that made no call before: the
\* candidates from the k-th on are tried on the file system as it is.
RECURSIVE FreshRead(_, _)
FreshRead(cands, k) ==
    IF k > Len(cands)
    THEN Raise("LeaseParseError", 60)
    ELSE LET got == OpenAndRead(cands[k])
         IN  IF got.kind = "raise" /\ Catches(OpenHandler, got.exc)
             THEN FreshRead(cands, k + 1)
             ELSE got

\* C13: no state is kept between calls.  Whatever calls came before, the
\* candidate list of a get_lease_file call is the explicit path, if given,
\* and the two defaults; the call opens no other path, and its outcome is
\* that of a first call with the same argument on the file system of the
\* time of the call; the outcome of parse_lease is that of its argument.
C13_NoStateBetweenCalls ==
    /\ r_pc \in {"loop", "done"} => files_to_try = ClaimedCandidates
    /\ r_pc = "done" =>
           /\ file_out = FreshRead(ClaimedCandidates, 1)
           /\ \A i \in 1..Len(opened) :
                  \E k \in 1..Len(ClaimedCandidates) : opened[i] = ClaimedCandidates[k]
    /\ parsed # Pending =>
           /\ parsed = parse_lease(lease_line)
           /\ (parsed.kind = "return") <=>
                  (lease_line.type = "str" /\ WellFormed(lease_line.s))

\* A second call, without a path, after a call with the explicit path, on a
\* file system where the file at the explicit path reads: the call returned
\* the lines of the first default and did not open the explicit path, with
\* a parse_lease call in between.
C13_Witness ==
    /\ calls = <<LeaseFilePath, PyNone>>
    /\ r_pc = "done"
    /\ Readable(LeaseFilePath)
    /\ fs[PathName(LeaseFilePath)].lines # fs[PathName(DefaultPaths[1])].lines
    /\ opened = <<DefaultPaths[1]>>
    /\ file_out = Return(fs[PathName(DefaultPaths[1])].lines)
    /\ parsed.kind = "raise"

---------------------------------------------------------------------------
(* Properties of the validators (checked under SpecValidate).              *)

\* The values the specification calls null: None, '', 'null' and 'none'.
IsNullValue(v) ==
    \/ v.type = "NoneType"
    \/ v.type = "str" /\ v.s \in {<<>>, <<"null">>, <<"none">>}

ValidationFailed == v_out.kind = "raise" /\ v_out.exc = "ValidationError"

\* C14: validate of a null value returns None when allow_null is true and
\* fails with ValidationError when it is false, whatever allow_coerce and
\* format_str or version are.
C14_NullValues ==
    (v_out # Pending /\ IsNullValue(v_value)) =>
        IF validator.allow_null THEN v_out = Return(PyNone) ELSE ValidationFailed

\* The text 'none' was validated with coercion asked for by an address
\* validator of version 4 that allows null, and None came back.
C14_Witness ==
    /\ validator = IPAddressValidator(PyInt(4), TRUE)
    /\ v_value = PyStr(<<"none">>)
    /\ allow_coerce
    /\ v_out = Return(PyNone)

\* The type a validator converts to.
TargetType ==
    CASE validator.kind = "ArrowValidator" -> "Arrow"
      [] validator.kind = "IPAddressValidator" -> "IPAddress"
      [] validator.kind = "MACValidator" -> "EUI"

\* The value is a text or number that the library reads as a value of the
\* target type under the validator's format_str or version.
Parses ==
    /\ v_value.type \in {"str", "int"}
    /\ CASE validator.kind = "ArrowValidator" ->
                ArrowGet(v_value, validator.format_str).kind = "return"
         [] validator.kind = "IPAddressValidator" ->
                IPAddressGet(v_value, validator.version, 0).kind = "return"
         [] validator.kind = "MACValidator" ->
                EUIGet(v_value, validator.version, 0).kind = "return"

\* C15: for a value that is not null, validate returns a value of the
\* target type unchanged, returns the converted value when allow_coerce is
\* true and the value parses, and fails with ValidationError otherwise.
C15_NonNullValues ==
    (v_out # Pending /\ ~IsNullValue(v_value)) =>
        IF v_value.type = TargetType
        THEN v_out = Return(v_value)
        ELSE IF allow_coerce /\ Parses
             THEN v_out.kind = "return" /\ v_out.value.type = TargetType
             ELSE ValidationFailed

===========================================================================
